---- MODULE Spec2Model ----
(***************************************************************************)
(* A model of the two decoders of the repository: the module image archive *)
(* (crates/jimage) and the class file (crates/class_file).                 *)
(*                                                                         *)
(* Bytes are numbers 0..255 and strings are sequences of bytes (UTF-8).    *)
(* A u32 is kept as four 8-bit limbs, least significant first, so that the *)
(* wrapping arithmetic of the hash is computed at its width.               *)
(***************************************************************************)
EXTENDS Integers, Sequences, FiniteSets, TLC

VARIABLES
    data,        \* hash: the string handed to hash()
    seed,        \* hash: the i32 seed handed to hash()
    hash_code,   \* hash: the value hash() returned
    archive,     \* Archive: its Index (the four tables)
    res_index,   \* Resources.index of the iterator in use
    item,        \* what the last Resources::next() returned
    path,        \* the path of the last by_name() call
    found,       \* what the last by_name() call returned
    input,       \* class file: the bytes handed to Parser::new
    parsed,      \* class file: what Parser::parse returned
    pool,        \* class file: what parse_constant_pool returned inside it
    accessed,    \* class file: the last accessor call and what it returned
    buf,         \* Archive::parse: the bytes handed to it
    little_endian, \* Archive::parse: whether the platform is little-endian
    image,       \* what Archive::parse returned
    slice,       \* what the last Resource::bytes() call returned
    stream,      \* attribute decoder: the bytes handed to Parser::new
    record,      \* what parse_attribute returned at the head of them
    attrs        \* what parse_attributes returned for them

vars == <<data, seed, hash_code, archive, res_index, item, path, found,
          input, parsed, pool, accessed, buf, little_endian, image, slice,
          stream, record, attrs>>

hashVars == <<data, seed, hash_code>>
archiveVars == <<archive, res_index, item, path, found>>
classVars == <<input, parsed, pool, accessed>>
imageVars == <<buf, little_endian, image, slice>>
streamVars == <<stream, record, attrs>>

Idle == [kind |-> "Idle"]

(***************************************************************************)
(* Bounds of the model.                                                    *)
(***************************************************************************)
MaxDataLen == 3
MaxTableLen == 2

(***************************************************************************)
(* Strings.  The characters the model builds strings from: '/', '.', 'a'   *)
(* and the two-byte character U+00E9.                                       *)
(***************************************************************************)
Chars == {<<47>>, <<46>>, <<97>>, <<195, 169>>}

RECURSIVE StrsOfLen(_)
StrsOfLen(n) ==
    IF n = 0 THEN {<<>>}
    ELSE {s \o c : s \in StrsOfLen(n - 1), c \in Chars}

StrsUpTo(n) == UNION {StrsOfLen(k) : k \in 0..n}

(***************************************************************************)
(* 32-bit arithmetic on limbs.                                             *)
(***************************************************************************)
Limbs(n) ==
    <<n % 256, (n \div 256) % 256, (n \div 65536) % 256, (n \div 16777216) % 256>>

\* `seed as u32`: the two's-complement bit pattern of an i32.
AsU32(i) ==
    IF i >= 0 THEN Limbs(i)
    ELSE LET c == Limbs(-(i + 1)) IN [k \in 1..4 |-> 255 - c[k]]

\* `x as i32`: the i32 whose bit pattern is x.
AsI32(x) ==
    IF x[4] < 128
    THEN ((x[4] * 256 + x[3]) * 256 + x[2]) * 256 + x[1]
    ELSE -((((255 - x[4]) * 256 + (255 - x[3])) * 256 + (255 - x[2])) * 256
           + (255 - x[1])) - 1

\* u32::wrapping_mul: the product modulo 2^32.
WrappingMul(a, b) ==
    LET c1 == a[1] * b[1]
        c2 == a[1] * b[2] + a[2] * b[1] + (c1 \div 256)
        c3 == a[1] * b[3] + a[2] * b[2] + a[3] * b[1] + (c2 \div 256)
        c4 == a[1] * b[4] + a[2] * b[3] + a[3] * b[2] + a[4] * b[1] + (c3 \div 256)
    IN <<c1 % 256, c2 % 256, c3 % 256, c4 % 256>>

RECURSIVE XorBits(_, _, _)
XorBits(x, y, n) ==
    IF n = 0 THEN 0
    ELSE ((x + y) % 2) + 2 * XorBits(x \div 2, y \div 2, n - 1)

\* `u ^ byte as u32`: the byte only reaches the low limb.
XorByte(u, byte) == <<XorBits(u[1], byte, 8), u[2], u[3], u[4]>>

\* The fold handed on with its sign bit.
MaskNoSignDropped(u) == u

\* `hash_code & 0x7fff_ffff`
MaskNoSign(u) == <<u[1], u[2], u[3], u[4] % 128>>

HASH_MULTIPLIER == 16777619

RECURSIVE HashFold(_, _)
HashFold(bytes, useed) ==
    IF bytes = <<>> THEN useed
    ELSE HashFold(Tail(bytes),
                  XorByte(WrappingMul(useed, AsU32(HASH_MULTIPLIER)), Head(bytes)))

hash(bytes, s) == AsI32(MaskNoSign(HashFold(bytes, AsU32(s))))

(***************************************************************************)
(* Strings of the archive: &str operations on UTF-8 byte sequences.        *)
(***************************************************************************)
Slash == 47
Dot == 46

IsContinuation(b) == b \in 128..191

\* std::str::from_utf8(bytes).ok(): whether the bytes are well-formed UTF-8.
RECURSIVE Utf8Valid(_)
Utf8Valid(s) ==
    IF s = <<>> THEN TRUE
    ELSE LET b == s[1]
             n == Len(s)
         IN IF b < 128 THEN Utf8Valid(Tail(s))
            ELSE IF b \in 194..223
            THEN n >= 2 /\ IsContinuation(s[2]) /\ Utf8Valid(SubSeq(s, 3, n))
            ELSE IF b \in 224..239
            THEN /\ n >= 3
                 /\ s[2] \in (IF b = 224 THEN 160..191
                              ELSE IF b = 237 THEN 128..159 ELSE 128..191)
                 /\ IsContinuation(s[3])
                 /\ Utf8Valid(SubSeq(s, 4, n))
            ELSE IF b \in 240..244
            THEN /\ n >= 4
                 /\ s[2] \in (IF b = 240 THEN 144..191
                              ELSE IF b = 244 THEN 128..143 ELSE 128..191)
                 /\ IsContinuation(s[3])
                 /\ IsContinuation(s[4])
                 /\ Utf8Valid(SubSeq(s, 5, n))
            ELSE FALSE

\* The byte offsets (from 0) at which the characters of s start.
CharStarts(s) == {i \in 0..(Len(s) - 1) : ~IsContinuation(s[i + 1])}

\* s.chars().nth(k) == Some(c), for a one-byte character c: k counts
\* characters, not bytes.
CharsNthIs(s, k, c) ==
    \E i \in CharStarts(s) :
        /\ Cardinality({j \in CharStarts(s) : j < i}) = k
        /\ s[i + 1] = c

StartsWith(s, prefix) ==
    Len(prefix) <= Len(s) /\ SubSeq(s, 1, Len(prefix)) = prefix

\* &s[i..] aborts when i is past the end or inside a character.
IsCharBoundary(s, i) ==
    i = 0 \/ i = Len(s) \/ (i < Len(s) /\ ~IsContinuation(s[i + 1]))

SliceFrom(s, i) == SubSeq(s, i + 1, Len(s))

Panic == [kind |-> "Panic"]
None == [kind |-> "None"]
Some(v) == [kind |-> "Some", value |-> v]

\* `let x = e;`: the element of {e}.  A set constructor over {e} names the
\* value of e, computed once, where a LET names the expression.
The(S) == CHOOSE v \in S : TRUE

(***************************************************************************)
(* The attribute stream decoder (archive/parser.rs).  A u64 value is kept  *)
(* as its eight bytes, most significant first.                             *)
(***************************************************************************)
AttributeKinds == 7
Zero64 == <<0, 0, 0, 0, 0, 0, 0, 0>>

\* acc << 8 | b
ShiftIn(acc, b) == Tail(acc) \o <<b>>

\* `value as usize` where it is used as an offset: the number, or MaxI32
\* for every value of 2^31 or more (past the end of every table modelled).
AsUsize(v) ==
    IF v[1] = 0 /\ v[2] = 0 /\ v[3] = 0 /\ v[4] = 0 /\ v[5] < 128
    THEN ((v[5] * 256 + v[6]) * 256 + v[7]) * 256 + v[8]
    ELSE 2147483647

RECURSIVE ReadValue(_, _, _, _)
\* The try_fold over `length + 1` read_u8 calls: the value, or an error
\* when the input ends first.
ReadValue(d, pos, n, acc) ==
    IF n = 0 THEN [kind |-> "Ok", value |-> acc, pos |-> pos]
    ELSE IF pos >= Len(d) THEN [kind |-> "Err", error |-> "IOError"]
    ELSE ReadValue(d, pos + 1, n - 1, ShiftIn(acc, d[pos + 1]))

\* The bytes of a value counted without the `=` of `0..=length`.
ValueLengthExclusive(header_byte) == header_byte % 8

\* The bytes of the value: (0..=length) with length = header_byte & 0x7.
ValueLength(header_byte) == (header_byte % 8) + 1

\* Parser::parse_attribute with the cursor at pos.
parse_attribute(d, pos) ==
    IF pos >= Len(d) THEN [kind |-> "Err", error |-> "IOError"]
    ELSE LET header_byte == d[pos + 1]
             kind == header_byte \div 8
         IN IF kind = 0 THEN [kind |-> "Ok", attr |-> None, pos |-> pos + 1]
            ELSE IF kind > AttributeKinds
            THEN [kind |-> "Err", error |-> "InvalidAttributeKind", code |-> kind]
            ELSE LET v == ReadValue(d, pos + 1, ValueLength(header_byte), Zero64)
                 IN IF v.kind = "Err" THEN v
                    ELSE [kind |-> "Ok",
                          attr |-> Some([kind |-> kind, value |-> v.value]),
                          pos |-> v.pos]

\* A slot written once and kept.
StoreFirst(attributes, kind, value) ==
    IF attributes[kind] = Zero64 THEN [attributes EXCEPT ![kind] = value]
    ELSE attributes

\* attributes[kind as usize] = value: AttributeKind k (1..7) has the
\* discriminant k - 1, the slot k of the tuple.
Store(attributes, kind, value) == [attributes EXCEPT ![kind] = value]

RECURSIVE ParseAttributesFrom(_, _, _)
\* while let Some((kind, value)) = self.parse_attribute()?
ParseAttributesFrom(d, pos, attributes) ==
    The({ IF a.kind = "Err" THEN a
          ELSE IF a.attr.kind = "None" THEN [kind |-> "Ok", attributes |-> attributes]
          ELSE ParseAttributesFrom(d, a.pos,
                   Store(attributes, a.attr.value.kind, a.attr.value.value))
          : a \in {parse_attribute(d, pos)} })

\* Parser::new(d).parse_attributes()
parse_attributes(d) == ParseAttributesFrom(d, 0, [k \in 1..AttributeKinds |-> Zero64])

(***************************************************************************)
(* Resource: its seven attributes, read against the archive's strings.     *)
(***************************************************************************)
Module == 1
Parent == 2
Base == 3
Extension == 4

RECURSIVE UpToNul(_)
\* bytes.split(|n| *n == 0).next(): the bytes before the first NUL.
UpToNul(bytes) ==
    IF bytes = <<>> \/ Head(bytes) = 0 THEN <<>>
    ELSE <<Head(bytes)>> \o UpToNul(Tail(bytes))

try_string(a, attributes, kind) ==
    LET offset == AsUsize(attributes[kind])
    IN IF offset > Len(a.strings_data) THEN Panic
       ELSE LET bytes == UpToNul(SliceFrom(a.strings_data, offset))
            IN IF bytes = <<>> THEN None
               ELSE IF Utf8Valid(bytes) THEN Some(bytes) ELSE None

\* try_string(kind).unwrap_or_default()
string_at(a, attributes, kind) ==
    LET s == try_string(a, attributes, kind)
    IN IF s.kind = "None" THEN Some(<<>>) ELSE s

full_name(a, attributes) ==
    LET m == try_string(a, attributes, Module)
        p == try_string(a, attributes, Parent)
        b == try_string(a, attributes, Base)
        e == try_string(a, attributes, Extension)
    IN IF "Panic" \in {m.kind, p.kind, b.kind, e.kind} THEN Panic
       ELSE Some((IF m.kind = "Some" THEN <<Slash>> \o m.value \o <<Slash>> ELSE <<>>)
                 \o (IF p.kind = "Some" THEN p.value \o <<Slash>> ELSE <<>>)
                 \o (IF b.kind = "Some" THEN b.value ELSE <<>>)
                 \o (IF e.kind = "Some" THEN <<Dot>> \o e.value ELSE <<>>))

(***************************************************************************)
(* Archive::verify.  Each stage answers Fail (return false), Panic (the    *)
(* slice aborts) or Rest (the path left to match).                         *)
(***************************************************************************)
Fail == [kind |-> "Fail"]
Rest(p) == [kind |-> "Rest", value |-> p]

\* path.chars().nth(k) == Some(c) as the code writes it.
NthIs(s, k, c) == CharsNthIs(s, k, c)

Advance(p, i) == IF IsCharBoundary(p, i) /\ i <= Len(p) THEN Rest(SliceFrom(p, i)) ELSE Panic

\* Each stage fetches its string (string_at may abort) once the stages
\* before it have passed, then matches it against what is left of the path.
VerifyModule(prev, str) ==
    IF prev.kind # "Rest" THEN prev
    ELSE IF str.kind = "Panic" THEN Panic
    ELSE LET p == prev.value
             module == str.value
         IN IF Len(module) > 0
            THEN IF \/ ~NthIs(p, 0, Slash)
                    \/ ~StartsWith(SliceFrom(p, 1), module)
                    \/ ~NthIs(p, 1 + Len(module), Slash)
                 THEN Fail
                 ELSE Advance(p, 2 + Len(module))
            ELSE Rest(p)

VerifyParent(prev, str) ==
    IF prev.kind # "Rest" THEN prev
    ELSE IF str.kind = "Panic" THEN Panic
    ELSE LET p == prev.value
             parent == str.value
         IN IF Len(parent) > 0
            THEN IF ~StartsWith(p, parent) \/ ~NthIs(p, Len(parent), Slash)
                 THEN Fail
                 ELSE Advance(p, 1 + Len(parent))
            ELSE Rest(p)

VerifyBase(prev, str) ==
    IF prev.kind # "Rest" THEN prev
    ELSE IF str.kind = "Panic" THEN Panic
    ELSE LET p == prev.value
             base == str.value
         IN IF ~StartsWith(p, base) THEN Fail ELSE Advance(p, Len(base))

VerifyExtension(prev, str) ==
    IF prev.kind # "Rest" THEN prev
    ELSE IF str.kind = "Panic" THEN Panic
    ELSE LET p == prev.value
             extension == str.value
         IN IF Len(extension) > 0
            THEN IF ~NthIs(p, 0, Dot) \/ ~StartsWith(SliceFrom(p, 1), extension)
                 THEN Fail
                 ELSE Advance(p, 1 + Len(extension))
            ELSE Rest(p)

\* Archive::verify(resource, path): Some(TRUE), Some(FALSE) or Panic.
verify(a, attributes, p) ==
    LET s1 == VerifyModule(Rest(p), string_at(a, attributes, Module))
        s2 == VerifyParent(s1, string_at(a, attributes, Parent))
        s3 == VerifyBase(s2, string_at(a, attributes, Base))
        s4 == VerifyExtension(s3, string_at(a, attributes, Extension))
    IN IF s4.kind = "Panic" THEN Panic
       ELSE IF s4.kind = "Fail" THEN Some(FALSE)
       ELSE Some(Len(s4.value) = 0)

(***************************************************************************)
(* Archive::by_name.                                                       *)
(***************************************************************************)
TableLen(a) == Len(a.redirect_table)

\* The % of two i32: the remainder has the sign of the dividend.
Rem(x, n) == IF x >= 0 THEN x % n ELSE -((((-(x + 1)) % n) + 1) % n)

\* The answer of by_name and whether attribute_offsets was read for it (and
\* then, in `candidate`, at which index).
Answer(r, read) == [kind |-> r.kind, consulted |-> read] @@ r

\* From the candidate index on: attribute_offsets, attribute_data, the
\* decoder and verify.
Candidate(a, p, value) ==
    [candidate |-> value] @@
    (IF value < 0 \/ value >= Len(a.attribute_offsets) THEN Answer(Panic, TRUE)
     ELSE LET attributes_offset == a.attribute_offsets[value + 1]
          IN IF attributes_offset > Len(a.attribute_data) THEN Answer(Panic, TRUE)
             ELSE LET decoded == parse_attributes(SliceFrom(a.attribute_data, attributes_offset))
                  IN IF decoded.kind = "Err" THEN Answer(None, TRUE)
                     ELSE LET v == verify(a, decoded.attributes, p)
                          IN IF v.kind = "Panic" THEN Answer(Panic, TRUE)
                             ELSE IF v.value THEN Answer(Some(decoded.attributes), TRUE)
                             ELSE Answer(None, TRUE))

\* The candidate index taken as -value for a negative slot.
CandidateIndexNegated(a, p, value) ==
    IF value > 0 THEN Rem(hash(p, value), TableLen(a)) ELSE -value

\* let value = if value > 0 { hash(path, value) % len } else { -1 - value }
CandidateIndex(a, p, value) ==
    IF value > 0 THEN Rem(hash(p, value), TableLen(a)) ELSE -1 - value

\* The second step taken without the test for an empty slot.
RedirectNoZeroTest(a, p, value) ==
    Candidate(a, p, CandidateIndex(a, p, value))

\* if value == 0 { return None }, then the second step of the lookup.
Redirect(a, p, value) ==
    IF value = 0 THEN Answer(None, FALSE)
    ELSE Candidate(a, p, CandidateIndex(a, p, value))

by_name(a, p) ==
    IF TableLen(a) = 0 THEN Answer(Panic, FALSE)
    ELSE LET hash_value == hash(p, HASH_MULTIPLIER)
             index == Rem(hash_value, TableLen(a))
         IN IF index < 0 THEN Answer(Panic, FALSE)
            ELSE Redirect(a, p, a.redirect_table[index + 1])

(***************************************************************************)
(* Resources::next.                                                        *)
(***************************************************************************)
\* What next() returns with the iterator at index i.
next(a, i) ==
    IF i >= TableLen(a) THEN None
    ELSE LET attribute_offset == a.attribute_offsets[i + 1]
         IN IF attribute_offset > Len(a.attribute_data) THEN Panic
            ELSE LET decoded == parse_attributes(SliceFrom(a.attribute_data, attribute_offset))
                 IN IF decoded.kind = "Err" THEN Panic
                    ELSE Some(decoded.attributes)

(***************************************************************************)
(* The class file: the constant pool and the accessors (constant_pool.rs,  *)
(* class_file.rs).  A CpInfo is a record with its variant in `tag`.        *)
(***************************************************************************)
Ok(v) == [kind |-> "Ok", value |-> v]
Err(e) == [kind |-> "Err", error |-> e]

Unusable == [tag |-> "Unusable"]

\* matches_cp_info!(cp, index, variant): `&cp[index]` is
\* cp_infos[index as usize - 1], which aborts for index 0 (the subtraction
\* overflows, or wraps to an index past the end) and for an index past the
\* end; then the variant is matched.
matches_cp_info(cp, index, variant) ==
    IF index = 0 \/ index > Len(cp) THEN Panic
    ELSE LET c == cp[index]
         IN IF c.tag = variant THEN Ok(c)
            ELSE Err([name |-> "UnexpectedConstantPoolEntry",
                      expected |-> variant, actual |-> c])

\* matches_cp_info!(.., Utf8), the string handed back as it is.
Utf8At(cp, index) ==
    LET r == matches_cp_info(cp, index, "Utf8")
    IN IF r.kind = "Ok" THEN Ok(r.value.value) ELSE r

\* ClassFile::super_class
super_class(cf) ==
    LET c == matches_cp_info(cf.constant_pool, cf.super_class, "Class")
    IN IF c.kind # "Ok" THEN c
       ELSE IF c.value.name_index = 0 THEN Ok(None)
       ELSE LET n == Utf8At(cf.constant_pool, c.value.name_index)
            IN IF n.kind = "Ok" THEN Ok(Some(n.value)) ELSE n

\* ClassFile::class_name
class_name(cf) ==
    LET c == matches_cp_info(cf.constant_pool, cf.this_class, "Class")
    IN IF c.kind # "Ok" THEN c
       ELSE Utf8At(cf.constant_pool, c.value.name_index)

\* ClassFile::field_name and ClassFile::method_name
field_name(cf, field) == Utf8At(cf.constant_pool, field.name_index)
method_name(cf, method) == Utf8At(cf.constant_pool, method.name_index)

\* ClassFile::field_descriptor and ClassFile::method_descriptor
field_descriptor(cf, field) == Utf8At(cf.constant_pool, field.descriptor_index)
method_descriptor(cf, method) == Utf8At(cf.constant_pool, method.descriptor_index)

(***************************************************************************)
(* The class file reader (parser.rs): big-endian reads at a cursor.  A     *)
(* read answers Ok with the value and the cursor after it, or an IOError   *)
(* when the input ends first.                                              *)
(***************************************************************************)
At(v, pos) == [kind |-> "Ok", value |-> v, pos |-> pos]
IOError == Err([name |-> "IOError"])

read_u8(b, pos) ==
    The({ IF p + 1 > Len(b) THEN IOError ELSE At(b[p + 1], p + 1) : p \in {pos} })

read_u16(b, pos) ==
    The({ IF p + 2 > Len(b) THEN IOError
          ELSE At(b[p + 1] * 256 + b[p + 2], p + 2) : p \in {pos} })

\* A u32 is handed back as its four bytes, most significant first.
read_u32(b, pos) ==
    The({ IF p + 4 > Len(b) THEN IOError
          ELSE At(SubSeq(b, p + 1, p + 4), p + 4) : p \in {pos} })

\* read_i32: the i32 of the four bytes.
read_i32(b, pos) ==
    LET r == read_u32(b, pos)
    IN IF r.kind # "Ok" THEN r
       ELSE At(AsI32(<<r.value[4], r.value[3], r.value[2], r.value[1]>>), r.pos)

\* `length as usize` of a u32: the number, or MaxI32 for 2^31 and more
\* (more than any input of the model holds).
LengthOf(w) ==
    IF w[1] >= 128 THEN 2147483647
    ELSE ((w[1] * 256 + w[2]) * 256 + w[3]) * 256 + w[4]

\* vec![0u8; n] filled by read_exact
read_exact(b, pos, n) ==
    The({ IF c[2] > Len(b) - c[1] THEN IOError
          ELSE At(SubSeq(b, c[1] + 1, c[1] + c[2]), c[1] + c[2]) : c \in {<<pos, n>>} })

\* U+FFFD as UTF-8
Replacement == <<239, 191, 189>>

\* How many bytes at the head of s are one well-formed character (1..4),
\* or, negated, how many bytes of an ill-formed sequence one replacement
\* character stands for.
CharLen(s) ==
    LET b == s[1]
        n == Len(s)
        second == IF b = 224 THEN 160..191 ELSE IF b = 237 THEN 128..159
                  ELSE IF b = 240 THEN 144..191 ELSE IF b = 244 THEN 128..143
                  ELSE 128..191
        need == IF b < 128 THEN 1 ELSE IF b \in 194..223 THEN 2
                ELSE IF b \in 224..239 THEN 3 ELSE IF b \in 240..244 THEN 4 ELSE 0
    IN IF need = 0 THEN -1
       ELSE IF need = 1 THEN 1
       ELSE IF n < 2 \/ s[2] \notin second THEN -1
       ELSE IF need = 2 THEN 2
       ELSE IF n < 3 \/ ~IsContinuation(s[3]) THEN -2
       ELSE IF need = 3 THEN 3
       ELSE IF n < 4 \/ ~IsContinuation(s[4]) THEN -3
       ELSE 4

RECURSIVE from_utf8_lossy(_)
\* String::from_utf8_lossy: every ill-formed sequence becomes U+FFFD.
from_utf8_lossy(s) ==
    IF s = <<>> THEN <<>>
    ELSE LET k == CharLen(s)
         IN IF k > 0 THEN SubSeq(s, 1, k) \o from_utf8_lossy(SubSeq(s, k + 1, Len(s)))
            ELSE Replacement \o from_utf8_lossy(SubSeq(s, 1 - k, Len(s)))

(***************************************************************************)
(* Constant pool entries (parser.rs, parse_cp_info and the parse_* of the  *)
(* variants).                                                              *)
(***************************************************************************)
\* Parser::parse_utf8
parse_utf8(b, pos) ==
    LET length == read_u16(b, pos)
    IN IF length.kind # "Ok" THEN length
       ELSE LET bytes == read_exact(b, length.pos, length.value)
            IN IF bytes.kind # "Ok" THEN bytes
               ELSE At([tag |-> "Utf8", value |-> from_utf8_lossy(bytes.value)],
                       bytes.pos)

\* Parser::parse_integer
parse_integer(b, pos) ==
    LET int == read_i32(b, pos)
    IN IF int.kind # "Ok" THEN int
       ELSE At([tag |-> "Integer", value |-> int.value], int.pos)

\* Parser::parse_float: todo!() aborts on the infinities and on NaN; the
\* value of the others is s * m * 2^(e - 150), kept as (s, m, e).
parse_float(b, pos) ==
    LET bits == read_u32(b, pos)
    IN IF bits.kind # "Ok" THEN bits
       ELSE LET w == bits.value
                fraction == ((w[2] % 128) * 256 + w[3]) * 256 + w[4]
                e == (w[1] % 128) * 2 + (w[2] \div 128)
            IN IF w = <<127, 128, 0, 0>> THEN Panic
               ELSE IF w = <<255, 128, 0, 0>> THEN Panic
               ELSE IF (w[1] = 127 \/ w[1] = 255) /\ w[2] >= 128 /\ fraction >= 1
               THEN Panic
               ELSE At([tag |-> "Float",
                        s |-> IF w[1] \div 128 = 0 THEN 1 ELSE -1,
                        e |-> e,
                        m |-> IF e = 0 THEN fraction * 2 ELSE fraction + 8388608],
                       bits.pos)

\* An i64 is kept as its eight bytes, most significant first.
\* `low_bytes as i64` with the sign of the u32 extended.
AsI64SignExtended(w) ==
    (IF w[1] >= 128 THEN <<255, 255, 255, 255>> ELSE <<0, 0, 0, 0>>) \o w

\* `x as i64` of a u32: the value is kept, the upper half is zero.
AsI64(w) == <<0, 0, 0, 0>> \o w

\* x << 32 of an i64: the upper half is shifted out.
Shl32(x) == SubSeq(x, 5, 8) \o <<0, 0, 0, 0>>

RECURSIVE CarryOut(_, _, _)
\* The carry out of the byte i of x + y.
CarryOut(x, y, i) ==
    IF i > 8 THEN 0 ELSE (x[i] + y[i] + CarryOut(x, y, i + 1)) \div 256

\* x + y of two i64: the sum, and whether it left the range of the i64
\* (an abort where overflow is checked, the wrapped sum where it is not).
AddI64(x, y) ==
    LET sum == [i \in 1..8 |-> (x[i] + y[i] + CarryOut(x, y, i + 1)) % 256]
    IN [sum |-> sum,
        overflow |-> (x[1] >= 128) = (y[1] >= 128) /\ (sum[1] >= 128) # (x[1] >= 128)]

\* Parser::parse_long: ((high_bytes as i64) << 32) + low_bytes as i64.
parse_long(b, pos) ==
    LET high_bytes == read_u32(b, pos)
    IN IF high_bytes.kind # "Ok" THEN high_bytes
       ELSE LET low_bytes == read_u32(b, high_bytes.pos)
            IN IF low_bytes.kind # "Ok" THEN low_bytes
               ELSE LET long == AddI64(Shl32(AsI64(high_bytes.value)),
                                       AsI64(low_bytes.value))
                    IN At([tag |-> "Long", value |-> long.sum,
                           overflow |-> long.overflow],
                          low_bytes.pos)

\* Parser::parse_class_info
parse_class_info(b, pos) ==
    LET name_index == read_u16(b, pos)
    IN IF name_index.kind # "Ok" THEN name_index
       ELSE At([tag |-> "Class", name_index |-> name_index.value], name_index.pos)

\* Parser::parse_string
parse_string(b, pos) ==
    LET string_index == read_u16(b, pos)
    IN IF string_index.kind # "Ok" THEN string_index
       ELSE At([tag |-> "String", string_index |-> string_index.value],
               string_index.pos)

\* Parser::parse_ref_info under the tag of parse_field_ref,
\* parse_method_ref or parse_interface_method_ref.
parse_ref_info(b, pos, tag) ==
    LET class_index == read_u16(b, pos)
    IN IF class_index.kind # "Ok" THEN class_index
       ELSE LET name_and_type_index == read_u16(b, class_index.pos)
            IN IF name_and_type_index.kind # "Ok" THEN name_and_type_index
               ELSE At([tag |-> tag, class_index |-> class_index.value,
                        name_and_type_index |-> name_and_type_index.value],
                       name_and_type_index.pos)

\* Parser::parse_name_and_type_info
parse_name_and_type_info(b, pos) ==
    LET name_index == read_u16(b, pos)
    IN IF name_index.kind # "Ok" THEN name_index
       ELSE LET descriptor_index == read_u16(b, name_index.pos)
            IN IF descriptor_index.kind # "Ok" THEN descriptor_index
               ELSE At([tag |-> "NameAndType", name_index |-> name_index.value,
                        descriptor_index |-> descriptor_index.value],
                       descriptor_index.pos)

\* Parser::parse_method_handle
parse_method_handle(b, pos) ==
    LET reference_kind == read_u8(b, pos)
    IN IF reference_kind.kind # "Ok" THEN reference_kind
       ELSE LET reference_index == read_u16(b, reference_kind.pos)
            IN IF reference_index.kind # "Ok" THEN reference_index
               ELSE At([tag |-> "MethodHandle",
                        reference_kind |-> reference_kind.value,
                        reference_index |-> reference_index.value],
                       reference_index.pos)

\* Parser::parse_method_type_info
parse_method_type_info(b, pos) ==
    LET descriptor_index == read_u16(b, pos)
    IN IF descriptor_index.kind # "Ok" THEN descriptor_index
       ELSE At([tag |-> "MethodType", descriptor_index |-> descriptor_index.value],
               descriptor_index.pos)

\* Parser::parse_invoke_dynamic_info
parse_invoke_dynamic_info(b, pos) ==
    LET bootstrap_method_attr_index == read_u16(b, pos)
    IN IF bootstrap_method_attr_index.kind # "Ok" THEN bootstrap_method_attr_index
       ELSE LET name_and_type_index == read_u16(b, bootstrap_method_attr_index.pos)
            IN IF name_and_type_index.kind # "Ok" THEN name_and_type_index
               ELSE At([tag |-> "InvokeDynamic",
                        bootstrap_method_attr_index |-> bootstrap_method_attr_index.value,
                        name_and_type_index |-> name_and_type_index.value],
                       name_and_type_index.pos)

\* Every variant taking one slot.
SlotSizeAlwaysOne(tag) == 1

\* The slots a variant takes: `5 => (self.parse_long()?, 2)`, 1 otherwise.
SlotSize(tag) == IF tag = 5 THEN 2 ELSE 1

\* Parser::parse_cp_info: the entry, its slot size and the cursor.
parse_cp_info(b, pos) ==
    LET tag == read_u8(b, pos)
    IN IF tag.kind # "Ok" THEN tag
       ELSE LET t == tag.value
                q == tag.pos
                cp_info ==
                    CASE t = 1 -> parse_utf8(b, q)
                      [] t = 3 -> parse_integer(b, q)
                      [] t = 4 -> parse_float(b, q)
                      [] t = 5 -> parse_long(b, q)
                      [] t = 7 -> parse_class_info(b, q)
                      [] t = 8 -> parse_string(b, q)
                      [] t = 9 -> parse_ref_info(b, q, "FieldRef")
                      [] t = 10 -> parse_ref_info(b, q, "MethodRef")
                      [] t = 11 -> parse_ref_info(b, q, "InterfaceMethodRef")
                      [] t = 12 -> parse_name_and_type_info(b, q)
                      [] t = 15 -> parse_method_handle(b, q)
                      [] t = 16 -> parse_method_type_info(b, q)
                      [] t = 18 -> parse_invoke_dynamic_info(b, q)
                      [] OTHER -> Err([name |-> "InvalidCpInfoTag", tag |-> t])
            IN IF cp_info.kind # "Ok" THEN cp_info
               ELSE [kind |-> "Ok", value |-> cp_info.value,
                     slot_size |-> SlotSize(t), pos |-> cp_info.pos]

\* A usize that wrapped below zero: more slots than any input holds.
WrappedCount == 2147483647

RECURSIVE PoolLoop(_, _, _, _, _)
\* The loop of parse_constant_pool with `count` slots to go.  Where
\* `count -= slot_size` passes zero the build decides: it aborts with
\* overflow checks, and wraps without them.
PoolLoop(b, pos, count, res, wraps) ==
    IF count = 0 THEN At(res, pos)
    ELSE The({ IF e.kind # "Ok" THEN e
               ELSE LET pushed == res \o <<e.value>>
                                      \o [i \in 1..(e.slot_size - 1) |-> Unusable]
                    IN IF e.slot_size > count
                       THEN IF wraps
                            THEN PoolLoop(b, e.pos, WrappedCount, pushed, wraps)
                            ELSE Panic
                       ELSE PoolLoop(b, e.pos, count - e.slot_size, pushed, wraps)
               : e \in {parse_cp_info(b, pos)} })

\* Parser::parse_constant_pool.  A count of 0 aborts in every build: the
\* subtraction overflows, or wraps and Vec::with_capacity overflows.
parse_constant_pool(b, pos, wraps) ==
    LET constant_pool_count == read_u16(b, pos)
    IN IF constant_pool_count.kind # "Ok" THEN constant_pool_count
       ELSE IF constant_pool_count.value = 0 THEN Panic
       ELSE PoolLoop(b, constant_pool_count.pos, constant_pool_count.value - 1,
                     <<>>, wraps)

(***************************************************************************)
(* The rest of the class file (parser.rs, parse).  The access flags are    *)
(* read and not kept: nothing below looks at them.                         *)
(***************************************************************************)
\* Parser::parse_attribute (class file)
cf_parse_attribute(b, pos) ==
    LET attribute_name_index == read_u16(b, pos)
    IN IF attribute_name_index.kind # "Ok" THEN attribute_name_index
       ELSE LET attribute_length == read_u32(b, attribute_name_index.pos)
            IN IF attribute_length.kind # "Ok" THEN attribute_length
               ELSE LET info == read_exact(b, attribute_length.pos,
                                           LengthOf(attribute_length.value))
                    IN IF info.kind # "Ok" THEN info
                       ELSE At([attribute_name_index |-> attribute_name_index.value,
                                info |-> info.value],
                               info.pos)

RECURSIVE AttributesLoop(_, _, _, _)
AttributesLoop(b, pos, count, res) ==
    IF count = 0 THEN At(res, pos)
    ELSE The({ IF a.kind # "Ok" THEN a
               ELSE AttributesLoop(b, a.pos, count - 1, Append(res, a.value))
               : a \in {cf_parse_attribute(b, pos)} })

\* Parser::parse_attributes (class file)
cf_parse_attributes(b, pos, attributes_count) ==
    AttributesLoop(b, pos, attributes_count, <<>>)

\* Parser::parse_field_info
parse_field_info(b, pos) ==
    LET access_flags == read_u16(b, pos)
    IN IF access_flags.kind # "Ok" THEN access_flags
       ELSE LET name_index == read_u16(b, access_flags.pos)
            IN IF name_index.kind # "Ok" THEN name_index
               ELSE LET descriptor_index == read_u16(b, name_index.pos)
                    IN IF descriptor_index.kind # "Ok" THEN descriptor_index
                       ELSE LET attributes_count == read_u16(b, descriptor_index.pos)
                            IN IF attributes_count.kind # "Ok" THEN attributes_count
                               ELSE LET attributes ==
                                            cf_parse_attributes(b, attributes_count.pos,
                                                                attributes_count.value)
                                    IN IF attributes.kind # "Ok" THEN attributes
                                       ELSE At([name_index |-> name_index.value,
                                                descriptor_index |-> descriptor_index.value,
                                                attributes |-> attributes.value],
                                               attributes.pos)

\* Parser::parse_method_info: the layout of a field.
parse_method_info(b, pos) == parse_field_info(b, pos)

RECURSIVE FieldsLoop(_, _, _, _)
\* (0..fields_count).map(|_| self.parse_field_info()).collect()
FieldsLoop(b, pos, count, res) ==
    IF count = 0 THEN At(res, pos)
    ELSE The({ IF f.kind # "Ok" THEN f
               ELSE FieldsLoop(b, f.pos, count - 1, Append(res, f.value))
               : f \in {parse_field_info(b, pos)} })

RECURSIVE MethodsLoop(_, _, _, _)
\* (0..methods_count).map(|_| self.parse_method_info()).collect()
MethodsLoop(b, pos, count, res) ==
    IF count = 0 THEN At(res, pos)
    ELSE The({ IF m.kind # "Ok" THEN m
               ELSE MethodsLoop(b, m.pos, count - 1, Append(res, m.value))
               : m \in {parse_method_info(b, pos)} })

\* read_u16_into: `count` u16 read in one go.
read_u16_into(b, pos, count) ==
    The({ IF 2 * c[2] > Len(b) - c[1] THEN IOError
          ELSE At([i \in 1..c[2] |-> b[c[1] + 2 * i - 1] * 256 + b[c[1] + 2 * i]],
                  c[1] + 2 * c[2]) : c \in {<<pos, count>>} })

\* Parser::parse_magic_identifier (class file)
cf_parse_magic_identifier(b, pos) ==
    LET magic_identifier == read_u32(b, pos)
    IN IF magic_identifier.kind # "Ok" THEN magic_identifier
       ELSE IF magic_identifier.value = <<202, 254, 186, 190>>
       THEN At(TRUE, magic_identifier.pos)
       ELSE Err([name |-> "InvalidMagicIdentifier", magic |-> magic_identifier.value])

\* Parser::parse_version (class file)
cf_parse_version(b, pos) ==
    LET minor == read_u16(b, pos)
    IN IF minor.kind # "Ok" THEN minor
       ELSE LET major == read_u16(b, minor.pos)
            IN IF major.kind # "Ok" THEN major
               ELSE At(<<major.value, minor.value>>, major.pos)

\* A parser that resolves this_class before it hands the class over.
finish_resolved(cf) ==
    LET n == class_name(cf)
    IN IF n.kind = "Err" THEN n ELSE Ok(cf)

\* `Ok(ClassFile { .. })`: what was read is handed over as it is.
finish(cf) == Ok(cf)

\* The head of Parser::parse: the magic and the version; the cursor is at
\* the constant pool.
Preamble(b) ==
    LET magic == cf_parse_magic_identifier(b, 0)
    IN IF magic.kind # "Ok" THEN magic ELSE cf_parse_version(b, magic.pos)

\* The body of Parser::parse after the constant pool.
Body(b, pos, constant_pool) ==
    LET access_flags == read_u16(b, pos)
        this_class == read_u16(b, access_flags.pos)
        super_class_r == read_u16(b, this_class.pos)
        interfaces_count == read_u16(b, super_class_r.pos)
        interfaces == read_u16_into(b, interfaces_count.pos, interfaces_count.value)
        fields_count == read_u16(b, interfaces.pos)
        fields == FieldsLoop(b, fields_count.pos, fields_count.value, <<>>)
        methods_count == read_u16(b, fields.pos)
        methods == MethodsLoop(b, methods_count.pos, methods_count.value, <<>>)
        attributes_count == read_u16(b, methods.pos)
        attributes == cf_parse_attributes(b, attributes_count.pos,
                                          attributes_count.value)
    IN IF access_flags.kind # "Ok" THEN access_flags
       ELSE IF this_class.kind # "Ok" THEN this_class
       ELSE IF super_class_r.kind # "Ok" THEN super_class_r
       ELSE IF interfaces_count.kind # "Ok" THEN interfaces_count
       ELSE IF interfaces.kind # "Ok" THEN interfaces
       ELSE IF fields_count.kind # "Ok" THEN fields_count
       ELSE IF fields.kind # "Ok" THEN fields
       ELSE IF methods_count.kind # "Ok" THEN methods_count
       ELSE IF methods.kind # "Ok" THEN methods
       ELSE IF attributes_count.kind # "Ok" THEN attributes_count
       ELSE IF attributes.kind # "Ok" THEN attributes
       ELSE finish([constant_pool |-> constant_pool,
                    this_class |-> this_class.value,
                    super_class |-> super_class_r.value,
                    interfaces |-> interfaces.value,
                    fields |-> fields.value,
                    methods |-> methods.value,
                    attributes |-> attributes.value])

\* What parse_constant_pool answers inside Parser::parse (Idle when parse
\* stops before it).
PoolOf(b, wraps) ==
    LET head == Preamble(b)
    IN IF head.kind # "Ok" THEN Idle ELSE parse_constant_pool(b, head.pos, wraps)

\* Parser::parse: Ok(ClassFile), Err(ClassFileError) or an abort.
parse(b, wraps) ==
    LET head == Preamble(b)
    IN IF head.kind # "Ok" THEN head
       ELSE The({ IF constant_pool.kind # "Ok" THEN constant_pool
                  ELSE Body(b, constant_pool.pos, constant_pool.value)
                  : constant_pool \in {parse_constant_pool(b, head.pos, wraps)} })

(***************************************************************************)
(* Archive::parse (archive/parser.rs).  The parser reads in the byte order *)
(* of the platform: `little` tells which one the build has.                *)
(***************************************************************************)
\* The bytes of a word as they lie in the input, most significant first.
Ordered(w, little) ==
    IF little THEN [i \in 1..Len(w) |-> w[Len(w) + 1 - i]] ELSE w

\* Parser::read_u16 (archive)
ji_read_u16(b, pos, little) ==
    The({ IF p + 2 > Len(b) THEN IOError
          ELSE At(Ordered(SubSeq(b, p + 1, p + 2), little)[1] * 256
                  + Ordered(SubSeq(b, p + 1, p + 2), little)[2], p + 2)
          : p \in {pos} })

\* Parser::read_u32 (archive): the four bytes, most significant first.
ji_read_u32(b, pos, little) ==
    The({ IF p + 4 > Len(b) THEN IOError
          ELSE At(Ordered(SubSeq(b, p + 1, p + 4), little), p + 4)
          : p \in {pos} })

\* The four bytes read and not compared.
ji_parse_magic_identifier_any(b, pos, little) ==
    LET magic_identifier == ji_read_u32(b, pos, little)
    IN IF magic_identifier.kind # "Ok" THEN magic_identifier
       ELSE At(TRUE, magic_identifier.pos)

\* Parser::parse_magic_identifier (archive)
ji_parse_magic_identifier(b, pos, little) ==
    LET magic_identifier == ji_read_u32(b, pos, little)
    IN IF magic_identifier.kind # "Ok" THEN magic_identifier
       ELSE IF magic_identifier.value = <<202, 254, 218, 218>>
       THEN At(TRUE, magic_identifier.pos)
       ELSE Err([name |-> "InvalidMagicIdentifier", magic |-> magic_identifier.value])

\* (minor, major) handed back in place of (major, minor).
ji_parse_version_swapped(b, pos, little) ==
    LET minor == ji_read_u16(b, pos, little)
    IN IF minor.kind # "Ok" THEN minor
       ELSE LET major == ji_read_u16(b, minor.pos, little)
            IN IF major.kind # "Ok" THEN major
               ELSE At(<<minor.value, major.value>>, major.pos)

\* Parser::parse_version (archive)
ji_parse_version(b, pos, little) ==
    LET minor == ji_read_u16(b, pos, little)
    IN IF minor.kind # "Ok" THEN minor
       ELSE LET major == ji_read_u16(b, minor.pos, little)
            IN IF major.kind # "Ok" THEN major
               ELSE At(<<major.value, minor.value>>, major.pos)

\* The five u32 of the header after the version, at pos: all of them or
\* the IOError of the first that the input does not hold.
HeaderWords(b, pos, little) ==
    The({ IF p + 20 > Len(b) THEN IOError
          ELSE At([i \in 1..5 |->
                      LengthOf(ji_read_u32(b, p + 4 * (i - 1), little).value)],
                  p + 20)
          : p \in {pos} })

\* Parser::parse_header
parse_header(b, little) ==
    LET magic == ji_parse_magic_identifier(b, 0, little)
    IN IF magic.kind # "Ok" THEN magic
       ELSE The({ IF version.kind # "Ok" THEN version
                  ELSE LET words == HeaderWords(b, version.pos, little)
                       IN IF words.kind # "Ok" THEN words
                          ELSE At([version |-> version.value,
                                   flags |-> words.value[1],
                                   resource_count |-> words.value[2],
                                   table_length |-> words.value[3],
                                   attributes_size |-> words.value[4],
                                   strings_size |-> words.value[5]],
                                  words.pos)
                  : version \in {ji_parse_version(b, magic.pos, little)} })

\* read_i32_into / read_u32_into: `count` words read with read_exact, as
\* the four bytes of each, most significant first.
ReadWordsInto(b, pos, count, little) ==
    The({ IF c[2] > (Len(b) - c[1]) \div 4 THEN IOError
          ELSE At([i \in 1..c[2] |->
                      Ordered(SubSeq(b, c[1] + 4 * i - 3, c[1] + 4 * i), little)],
                  c[1] + 4 * c[2])
          : c \in {<<pos, count>>} })

\* `self.r.read(&mut v)` on vec![0u8; size]: Cursor::read copies the bytes
\* the input still holds, at most `size`, and is no error when they are
\* fewer; the rest of v stays 0.
ReadSome(b, pos, size) ==
    The({ LET n == IF c[2] > Len(b) - c[1] THEN Len(b) - c[1] ELSE c[2]
          IN At(SubSeq(b, c[1] + 1, c[1] + n) \o [i \in 1..(c[2] - n) |-> 0],
                c[1] + n)
          : c \in {<<pos, size>>} })

\* Parser::parse_index
parse_index(b, pos, header, little) ==
    The({ IF redirect_table.kind # "Ok" THEN redirect_table
          ELSE The({ IF attribute_offsets.kind # "Ok" THEN attribute_offsets
                     ELSE The({ LET strings_data ==
                                        ReadSome(b, attribute_data.pos, header.strings_size)
                                IN At([redirect_table |->
                                          [i \in 1..header.table_length |->
                                              AsI32(Ordered(redirect_table.value[i], TRUE))],
                                       attribute_offsets |->
                                          [i \in 1..header.table_length |->
                                              LengthOf(attribute_offsets.value[i])],
                                       attribute_data |-> attribute_data.value,
                                       strings_data |-> strings_data.value],
                                      strings_data.pos)
                                : attribute_data \in
                                    {ReadSome(b, attribute_offsets.pos,
                                              header.attributes_size)} })
                     : attribute_offsets \in
                         {ReadWordsInto(b, redirect_table.pos, header.table_length,
                                        little)} })
          : redirect_table \in {ReadWordsInto(b, pos, header.table_length, little)} })

\* Parser::parse_archive: Ok(Archive) or the error of the header or of the
\* index.
parse_archive(b, little) ==
    The({ IF header.kind # "Ok" THEN header
          ELSE The({ IF index.kind # "Ok" THEN index
                     ELSE Ok([buf |-> b,
                              header |-> header.value,
                              index |-> index.value,
                              resource_data_start |-> index.pos])
                     : index \in {parse_index(b, header.pos, header.value, little)} })
          : header \in {parse_header(b, little)} })

(***************************************************************************)
(* Header::index_size.                                                     *)
(***************************************************************************)
\* table_length * size_of::<i32>()
redirect_table_size(header) == header.table_length * 4

\* table_length * size_of::<u32>()
attribute_offsets_size(header) == header.table_length * 4

\* size_of::<u32>() for the magic and size_of::<Header>(), the six fields
\* of 24 bytes, then the four regions.
index_size(header) ==
    4 + 24 + redirect_table_size(header) + attribute_offsets_size(header)
      + header.attributes_size + header.strings_size

(***************************************************************************)
(* Resource::bytes.                                                        *)
(***************************************************************************)
Offset == 5
Uncompressed == 7

\* &buf[offset..offset + size]: the slice as where it starts in buf, where
\* it ends and what it holds, or the abort of a range that is not in buf.
\* An attribute of 2^31 or more is past the end of every buffer here.
bytes(a, attributes) ==
    LET start == AsUsize(attributes[Offset])
        size == AsUsize(attributes[Uncompressed])
    IN IF start > Len(a.buf) - a.resource_data_start THEN Panic
       ELSE IF size > Len(a.buf) - a.resource_data_start - start THEN Panic
       ELSE LET offset == a.resource_data_start + start
            IN [kind |-> "Slice", from |-> offset, to |-> offset + size,
                value |-> SubSeq(a.buf, offset + 1, offset + size)]

(***************************************************************************)
(* The hash on its own: Init draws a string and a seed, Hash applies it.   *)
(***************************************************************************)
MinI32 == -2147483647 - 1
MaxI32 == 2147483647

Seeds == {HASH_MULTIPLIER, 0, 1, -1, MaxI32, MinI32}

InitHash ==
    /\ data \in StrsUpTo(MaxDataLen)
    /\ seed \in Seeds
    /\ hash_code = Idle
    /\ archive = Idle /\ res_index = 0 /\ item = Idle /\ path = <<>> /\ found = Idle
    /\ input = <<>> /\ parsed = Idle /\ pool = Idle /\ accessed = Idle
    /\ buf = <<>> /\ little_endian = TRUE /\ image = Idle /\ slice = Idle
    /\ stream = <<>> /\ record = Idle /\ attrs = Idle

Hash ==
    /\ hash_code = Idle
    /\ hash_code' = [kind |-> "Done", value |-> hash(data, seed)]
    /\ UNCHANGED <<data, seed, archiveVars, classVars, imageVars, streamVars>>

NextHash == Hash

SpecHash == InitHash /\ [][NextHash]_vars

\* C5: hash(s, seed) is in [0, 2^31 - 1] for every string and every i32 seed.
HashNonNegative ==
    hash_code.kind = "Done" => hash_code.value \in 0..MaxI32

HashSignBitMasked ==
    /\ hash_code.kind = "Done"
    /\ seed < 0
    /\ data # <<>>
    /\ HashFold(data, AsU32(seed))[4] >= 128
(***************************************************************************)
(* The archive: Init draws the index of a parsed archive, the actions are  *)
(* the calls of its public surface.                                        *)
(***************************************************************************)
\* strings_data: "", "a", U+00E9 and "/" at the offsets 0, 1, 3 and 6.
StringsData == <<0, 97, 0, 195, 169, 0, 47, 0>>

\* attribute_data: at 0 (Parent 3, Base 6), at 5 (Parent 3, Base 1,
\* Extension 1), at 7 (Base 1, Extension 1); the end of input at 12.
AttributeData == <<16, 3, 24, 6, 0, 16, 3, 24, 1, 32, 1, 0>>

RedirectValues == {0, -1, -2, 2}
AttributeOffsets == {0, 5, 7}

Archives ==
    UNION {
        {[redirect_table |-> r, attribute_offsets |-> o,
          attribute_data |-> AttributeData, strings_data |-> StringsData] :
            r \in [1..n -> RedirectValues], o \in [1..n -> AttributeOffsets]} :
        n \in 0..MaxTableLen}

\* "", "a", "a.a", ".a", "/", and with U+00E9 written e: "e//", "ea/",
\* "ee/", "e/a.a".
QueryPaths ==
    {<<>>, <<97>>, <<97, 46, 97>>, <<46, 97>>, <<47>>,
     <<195, 169, 47, 47>>, <<195, 169, 97, 47>>, <<195, 169, 195, 169, 47>>,
     <<195, 169, 47, 97, 46, 97>>}

Running == item.kind # "Panic" /\ found.kind # "Panic" /\ slice.kind # "Panic"

InitArchive ==
    /\ archive \in Archives
    /\ res_index = 0
    /\ item = Idle
    /\ path = <<>>
    /\ found = Idle
    /\ data = <<>> /\ seed = 0 /\ hash_code = Idle
    /\ input = <<>> /\ parsed = Idle /\ pool = Idle /\ accessed = Idle
    /\ buf = <<>> /\ little_endian = TRUE /\ image = Idle /\ slice = Idle
    /\ stream = <<>> /\ record = Idle /\ attrs = Idle

\* Archive::resources(): a new iterator.
ResourcesNew ==
    /\ Running
    /\ res_index' = 0
    /\ item' = Idle
    /\ UNCHANGED <<archive, path, found, hashVars, classVars, imageVars, streamVars>>

\* Resources::next()
ResourcesNext ==
    /\ Running
    /\ item' = next(archive, res_index)
    /\ res_index' = IF item'.kind = "Some" THEN res_index + 1 ELSE res_index
    /\ UNCHANGED <<archive, path, found, hashVars, classVars, imageVars, streamVars>>

\* The paths a caller asks for: the samples and the name of the resource
\* the iterator handed out.
ItemName ==
    IF item.kind = "Some"
    THEN LET n == full_name(archive, item.value)
         IN IF n.kind = "Some" THEN {n.value} ELSE {}
    ELSE {}

\* Archive::by_name(path)
ByName ==
    /\ Running
    /\ \E p \in QueryPaths \cup ItemName :
        /\ path' = p
        /\ found' = by_name(archive, p)
    /\ UNCHANGED <<archive, res_index, item, hashVars, classVars, imageVars, streamVars>>

NextArchive == ResourcesNew \/ ResourcesNext \/ ByName

SpecArchive == InitArchive /\ [][NextArchive]_vars

\* The candidate index the redirect table gives a path (-1: none).
LookupIndex(a, p) ==
    LET r == a.redirect_table[(hash(p, HASH_MULTIPLIER) % TableLen(a)) + 1]
    IN IF r = 0 THEN -1
       ELSE IF r > 0 THEN hash(p, r) % TableLen(a)
       ELSE -1 - r

\* The redirect table sends the name of every named resource to its index.
ValidPerfectHash(a) ==
    \A i \in 0..(TableLen(a) - 1) :
        LET r == next(a, i)
            n == IF r.kind = "Some" THEN full_name(a, r.value) ELSE None
        IN (n.kind = "Some" /\ n.value # <<>>) => LookupIndex(a, n.value) = i

ItemFullName == IF item.kind = "Some" THEN full_name(archive, item.value) ELSE None

\* C1: in an archive with a valid perfect-hash index, by_name(r.full_name())
\* is Some resource with the attributes of r, for every named resource r
\* the iterator yields.
ByNameFindsYielded ==
    (/\ found.kind # "Idle"
     /\ ItemFullName.kind = "Some"
     /\ ItemFullName.value # <<>>
     /\ path = ItemFullName.value
     /\ ValidPerfectHash(archive))
    => (found.kind = "Some" /\ found.value = item.value)

\* C2: by_name(p) = Some(r) only if r.full_name() = p.
FoundHasQueriedName ==
    found.kind = "Some" => full_name(archive, found.value) = Some(path)

\* C3: the full name of a resource verifies against the resource.
FullNameVerifies ==
    ItemFullName.kind = "Some"
    => verify(archive, item.value, ItemFullName.value) = Some(TRUE)

Bucket(a, p) == hash(p, HASH_MULTIPLIER) % TableLen(a)

\* C4: a path whose bucket of the redirect table holds 0 is answered None,
\* and attribute_offsets and attribute_data are not read for it.
EmptySlotIsNone ==
    (/\ found.kind # "Idle"
     /\ TableLen(archive) > 0
     /\ archive.redirect_table[Bucket(archive, path) + 1] = 0)
    => (found.kind = "None" /\ ~found.consulted)

EmptySlotQueried ==
    /\ found.kind = "None"
    /\ TableLen(archive) = 2
    /\ path # <<>>
    /\ archive.redirect_table[Bucket(archive, path) + 1] = 0
    /\ archive.redirect_table[2 - Bucket(archive, path)] # 0
(***************************************************************************)
(* The class file: Init draws the bytes of a file, Parse reads them, the   *)
(* other actions are the accessors of the ClassFile it answered.           *)
(***************************************************************************)
MaxCpEntries == 2

Magic == <<202, 254, 186, 190>>
Version == <<0, 0, 0, 52>>
U16(n) == <<n \div 256, n % 256>>

\* Entries as they are written: Utf8 "a", Float 1.0, Float +infinity,
\* Long 1, Class with name_index 1, 2 and 0, String 1, and the tag 2.
EntrySamples ==
    { <<1, 0, 1, 97>>, <<4, 63, 128, 0, 0>>, <<4, 127, 128, 0, 0>>,
      <<5, 0, 0, 0, 0, 0, 0, 0, 1>>, <<7, 0, 1>>, <<7, 0, 2>>, <<7, 0, 0>>,
      <<8, 0, 1>>, <<2>> }

RECURSIVE EntrySeqs(_)
EntrySeqs(n) ==
    IF n = 0 THEN {<<>>}
    ELSE {Append(es, e) : es \in EntrySeqs(n - 1), e \in EntrySamples}

RECURSIVE Flatten(_)
Flatten(es) == IF es = <<>> THEN <<>> ELSE Head(es) \o Flatten(Tail(es))

RECURSIVE SlotsOf(_)
\* The slots the entries take by the file format: two for a Long.
SlotsOf(es) ==
    IF es = <<>> THEN 0
    ELSE (IF Head(es)[1] = 5 THEN 2 ELSE 1) + SlotsOf(Tail(es))

\* A field (name 1, descriptor 2, no attribute) and a method (name 2,
\* descriptor 1, one attribute of one byte).
FieldBytes == <<0, 2, 0, 1, 0, 2, 0, 0>>
MethodBytes == <<0, 1, 0, 2, 0, 1, 0, 1, 0, 1, 0, 0, 0, 1, 42>>

\* What follows the constant pool: flags, this_class, super_class, no
\* interface, the members or none, no attribute.
TailBytes(this, super, members) ==
    <<0, 33>> \o U16(this) \o U16(super) \o <<0, 0>>
    \o (IF members THEN <<0, 1>> \o FieldBytes \o <<0, 1>> \o MethodBytes
        ELSE <<0, 0, 0, 0>>)
    \o <<0, 0>>

Tails == {TailBytes(t, s, m) : t \in {1, 2}, s \in {0, 1}, m \in BOOLEAN}

\* Files whose pool count is the one of their entries, or one less.
Composed ==
    UNION { { Magic \o Version \o U16(c) \o Flatten(es) \o t :
                c \in {SlotsOf(es) + 1, SlotsOf(es)}, t \in Tails } :
            es \in UNION {EntrySeqs(n) : n \in 0..MaxCpEntries} }

BaseFile ==
    Magic \o Version \o U16(3) \o <<1, 0, 1, 97>> \o <<7, 0, 1>>
    \o TailBytes(2, 0, TRUE)

\* Every file cut short, and files with another magic.
Truncated == {SubSeq(BaseFile, 1, k) : k \in 0..Len(BaseFile)}
OtherMagic ==
    { <<202, 254, 186, 191>> \o SubSeq(BaseFile, 5, Len(BaseFile)),
      <<190, 186, 254, 202>> \o SubSeq(BaseFile, 5, Len(BaseFile)) }

ClassInputs == Composed \cup Truncated \cup OtherMagic

InitClass ==
    /\ input \in ClassInputs
    /\ parsed = Idle
    /\ pool = Idle
    /\ accessed = Idle
    /\ data = <<>> /\ seed = 0 /\ hash_code = Idle
    /\ archive = Idle /\ res_index = 0 /\ item = Idle /\ path = <<>> /\ found = Idle
    /\ buf = <<>> /\ little_endian = TRUE /\ image = Idle /\ slice = Idle
    /\ stream = <<>> /\ record = Idle /\ attrs = Idle

\* Parser::new(input).parse(), in a build with overflow checks or without.
Parse ==
    /\ parsed = Idle
    /\ \E wraps \in BOOLEAN :
        /\ parsed' = parse(input, wraps)
        /\ pool' = PoolOf(input, wraps)
    /\ UNCHANGED <<input, accessed, hashVars, archiveVars, imageVars, streamVars>>

Called(op, index, result) ==
    [kind |-> "Done", op |-> op, index |-> index, result |-> result]

\* class_file.class_name()
ClassName ==
    /\ parsed.kind = "Ok"
    /\ accessed' = Called("class_name", parsed.value.this_class,
                          class_name(parsed.value))
    /\ UNCHANGED <<input, parsed, pool, hashVars, archiveVars, imageVars, streamVars>>

\* class_file.super_class()
SuperClass ==
    /\ parsed.kind = "Ok"
    /\ accessed' = Called("super_class", parsed.value.super_class,
                          super_class(parsed.value))
    /\ UNCHANGED <<input, parsed, pool, hashVars, archiveVars, imageVars, streamVars>>

\* class_file.field_name(field) for a field of the class
FieldName ==
    /\ parsed.kind = "Ok"
    /\ \E i \in 1..Len(parsed.value.fields) :
        LET field == parsed.value.fields[i]
        IN accessed' = Called("field_name", field.name_index,
                              field_name(parsed.value, field))
    /\ UNCHANGED <<input, parsed, pool, hashVars, archiveVars, imageVars, streamVars>>

\* class_file.field_descriptor(field) for a field of the class
FieldDescriptor ==
    /\ parsed.kind = "Ok"
    /\ \E i \in 1..Len(parsed.value.fields) :
        LET field == parsed.value.fields[i]
        IN accessed' = Called("field_descriptor", field.descriptor_index,
                              field_descriptor(parsed.value, field))
    /\ UNCHANGED <<input, parsed, pool, hashVars, archiveVars, imageVars, streamVars>>

\* class_file.method_name(method) for a method of the class
MethodName ==
    /\ parsed.kind = "Ok"
    /\ \E i \in 1..Len(parsed.value.methods) :
        LET method == parsed.value.methods[i]
        IN accessed' = Called("method_name", method.name_index,
                              method_name(parsed.value, method))
    /\ UNCHANGED <<input, parsed, pool, hashVars, archiveVars, imageVars, streamVars>>

\* class_file.method_descriptor(method) for a method of the class
MethodDescriptor ==
    /\ parsed.kind = "Ok"
    /\ \E i \in 1..Len(parsed.value.methods) :
        LET method == parsed.value.methods[i]
        IN accessed' = Called("method_descriptor", method.descriptor_index,
                              method_descriptor(parsed.value, method))
    /\ UNCHANGED <<input, parsed, pool, hashVars, archiveVars, imageVars, streamVars>>

NextClass ==
    \/ Parse
    \/ ClassName
    \/ SuperClass
    \/ FieldName
    \/ FieldDescriptor
    \/ MethodName
    \/ MethodDescriptor

SpecClass == InitClass /\ [][NextClass]_vars
\* C6: when the super_class field of the decoded class is 0, super_class()
\* answers Ok(None); it answers no error and does not abort.
SuperClassZeroIsNone ==
    (/\ accessed.kind = "Done"
     /\ accessed.op = "super_class"
     /\ parsed.value.super_class = 0)
    => (/\ accessed.result.kind = "Ok"
        /\ accessed.result.value.kind = "None")

\* C7: an accessor whose index field is in [1, n], n the slots of the pool,
\* answers the string or UnexpectedConstantPoolEntry and does not abort.
AccessorsNeverAbort ==
    (/\ accessed.kind = "Done"
     /\ accessed.index \in 1..Len(parsed.value.constant_pool))
    => \/ accessed.result.kind = "Ok"
       \/ /\ accessed.result.kind = "Err"
          /\ accessed.result.error.name = "UnexpectedConstantPoolEntry"

\* constant_pool_count as the file declares it (bytes 8 and 9).
DeclaredCount(b) == b[9] * 256 + b[10]

\* C8: a pool parse_constant_pool answered for the declared count c has
\* c - 1 slots, an Unusable right after every Long, and no other Unusable.
PoolShape ==
    pool.kind = "Ok" =>
        LET cp == pool.value
        IN /\ Len(cp) = DeclaredCount(input) - 1
           /\ \A i \in 1..Len(cp) :
                /\ cp[i].tag = "Long" =>
                       (i + 1 <= Len(cp) /\ cp[i + 1].tag = "Unusable")
                /\ cp[i].tag = "Unusable" => (i > 1 /\ cp[i - 1].tag = "Long")

PoolWithLong ==
    /\ pool.kind = "Ok"
    /\ \E i \in 1..Len(pool.value) :
        /\ pool.value[i].tag = "Long"
        /\ i + 2 <= Len(pool.value)
        /\ pool.value[i + 2].tag # "Unusable"

\* The layout of a class file by its format alone: where what starts at
\* pos ends, or -1 when a count or a length goes past the end of the bytes
\* (or the tag of an entry tells no length).
U16At(b, pos) ==
    The({ IF p < 0 \/ p + 2 > Len(b) THEN -1 ELSE b[p + 1] * 256 + b[p + 2]
          : p \in {pos} })

EntryEnd(b, pos) ==
    The({ IF p + 1 > Len(b) THEN -1
          ELSE LET tag == b[p + 1]
                   end == CASE tag = 1 ->
                                 IF U16At(b, p + 1) < 0 THEN -1
                                 ELSE p + 3 + U16At(b, p + 1)
                            [] tag \in {3, 4} -> p + 5
                            [] tag = 5 -> p + 9
                            [] tag \in {7, 8, 16} -> p + 3
                            [] tag \in {9, 10, 11, 12, 18} -> p + 5
                            [] tag = 15 -> p + 4
                            [] OTHER -> -1
               IN IF end > Len(b) THEN -1 ELSE end
          : p \in {pos} })

RECURSIVE EntriesEnd(_, _, _)
EntriesEnd(b, pos, slots) ==
    The({ IF c[1] < 0 \/ c[2] < 0 THEN -1
          ELSE IF c[2] = 0 THEN c[1]
          ELSE IF c[1] + 1 > Len(b) THEN -1
          ELSE EntriesEnd(b, EntryEnd(b, c[1]), c[2] - SlotsOf(<<<<b[c[1] + 1]>>>>))
          : c \in {<<pos, slots>>} })

RECURSIVE AttributesEnd(_, _, _)
AttributesEnd(b, pos, count) ==
    The({ IF c[1] < 0 \/ c[2] < 0 THEN -1
          ELSE IF c[2] = 0 THEN c[1]
          ELSE IF c[1] + 6 > Len(b) THEN -1
          ELSE LET length == LengthOf(SubSeq(b, c[1] + 3, c[1] + 6))
               IN IF length > Len(b) - (c[1] + 6) THEN -1
                  ELSE AttributesEnd(b, c[1] + 6 + length, c[2] - 1)
          : c \in {<<pos, count>>} })

RECURSIVE MembersEnd(_, _, _)
MembersEnd(b, pos, count) ==
    The({ IF c[1] < 0 \/ c[2] < 0 THEN -1
          ELSE IF c[2] = 0 THEN c[1]
          ELSE MembersEnd(b, AttributesEnd(b, c[1] + 8, U16At(b, c[1] + 6)), c[2] - 1)
          : c \in {<<pos, count>>} })

\* Where the members counted at pos end.
CountedMembersEnd(b, pos) ==
    The({ IF p < 0 THEN -1 ELSE MembersEnd(b, p + 2, U16At(b, p)) : p \in {pos} })

\* Where the interfaces end whose count is 6 bytes after pos.
InterfacesEnd(b, pos) ==
    The({ IF p < 0 \/ U16At(b, p + 6) < 0 THEN -1
          ELSE IF p + 8 + 2 * U16At(b, p + 6) > Len(b) THEN -1
          ELSE p + 8 + 2 * U16At(b, p + 6) : p \in {pos} })

FileEnd(b) ==
    LET count == U16At(b, 8)
        entries == IF count < 1 THEN -1 ELSE EntriesEnd(b, 10, count - 1)
        methods == CountedMembersEnd(b, CountedMembersEnd(b, InterfacesEnd(b, entries)))
    IN The({ IF p < 0 THEN -1 ELSE AttributesEnd(b, p + 2, U16At(b, p))
             : p \in {methods} })

BeginsWithMagic(b) == Len(b) >= 4 /\ SubSeq(b, 1, 4) = Magic
LengthsFit(b) == FileEnd(b) >= 0

\* C9: parse succeeds exactly for the bytes that begin with 0xCAFEBABE and
\* whose counts and lengths fit in the input, and answers an error for all
\* the others.
ParseSucceedsIffWellFormed ==
    parsed.kind # "Idle" =>
        IF BeginsWithMagic(input) /\ LengthsFit(input)
        THEN parsed.kind = "Ok"
        ELSE parsed.kind = "Err"

\* The bytes with this_class and super_class, at pos, set to t and s.
WithIndices(b, pos, t, s) ==
    SubSeq(b, 1, pos) \o U16(t) \o U16(s) \o SubSeq(b, pos + 5, Len(b))

\* C10: parse never answers UnexpectedConstantPoolEntry, and whether it
\* succeeds does not depend on this_class and super_class: an index to an
\* entry of another variant, to a later entry or to no entry parses, and
\* the error is the answer of an accessor.
ParseResolvesNothing ==
    /\ parsed.kind = "Err" => parsed.error.name # "UnexpectedConstantPoolEntry"
    /\ (pool.kind = "Ok" /\ pool.pos + 6 <= Len(input)) =>
           \A t \in 0..3, s \in 0..3 :
               \A file \in {WithIndices(input, pool.pos + 2, t, s)} :
                   parse(file, FALSE).kind = parsed.kind

LateError ==
    /\ parsed.kind = "Ok"
    /\ accessed.kind = "Done"
    /\ accessed.op = "class_name"
    /\ accessed.result.kind = "Err"
    /\ accessed.result.error.name = "UnexpectedConstantPoolEntry"
    /\ accessed.result.error.actual.tag # "Class"
(***************************************************************************)
(* The archive from its bytes: Init draws the bytes and the byte order of  *)
(* the platform, ArchiveParse reads them, the other actions are the calls  *)
(* on the Archive it answered.                                             *)
(***************************************************************************)
\* A small i32 or u32 as its four bytes in the byte order asked for.
Word(n, le) ==
    Ordered(IF n >= 0 THEN <<0, 0, n \div 256, n % 256>>
            ELSE <<255, 255, 255, 256 + n>>, le)

\* attribute_data: at 0 (Base 1, Offset 1, Uncompressed 2), at 7 (Base 1,
\* Uncompressed 200); strings_data: "" at 0, "a" at 1; three bytes of
\* resource data.
ImageAttributes == <<24, 1, 40, 1, 56, 2, 0, 24, 1, 56, 200, 0>>
ImageStrings == <<0, 97, 0>>
Payload == <<7, 8, 9>>

ImageMagic == <<202, 254, 218, 218>>
ImageVersion == <<18, 52, 86, 120>>

\* An image as a platform of the byte order `le` writes it: the header
\* (magic, minor, major, flags, resource_count, table_length,
\* attributes_size, strings_size), the two tables, the data.
ImageBytes(magic, version, redirects, offsets, le) ==
    Ordered(magic, le)
    \o Ordered(SubSeq(version, 1, 2), le) \o Ordered(SubSeq(version, 3, 4), le)
    \o Word(0, le) \o Word(Len(redirects), le) \o Word(Len(redirects), le)
    \o Word(Len(ImageAttributes), le) \o Word(Len(ImageStrings), le)
    \o Flatten([i \in 1..Len(redirects) |-> Word(redirects[i], le)])
    \o Flatten([i \in 1..Len(offsets) |-> Word(offsets[i], le)])
    \o ImageAttributes \o ImageStrings \o Payload

ImageRedirects == {0, -1, 1}
ImageOffsets == {0, 7, 40}

Indexed ==
    UNION { { ImageBytes(ImageMagic, ImageVersion, r, o, TRUE) :
                r \in [1..n -> ImageRedirects], o \in [1..n -> ImageOffsets] } :
            n \in 0..MaxTableLen }

BaseImage == ImageBytes(ImageMagic, ImageVersion, <<-1>>, <<0>>, TRUE)

\* The image cut short at every byte, with other magics and versions, and
\* as a big-endian platform writes it.
CutShort == {SubSeq(BaseImage, 1, k) : k \in 0..Len(BaseImage)}
OtherMagics ==
    { ImageBytes(m, ImageVersion, <<-1>>, <<0>>, TRUE) :
        m \in {<<202, 254, 218, 219>>, <<218, 218, 254, 202>>, <<0, 0, 0, 0>>,
               <<202, 254, 186, 190>>} }
OtherVersions ==
    { ImageBytes(ImageMagic, v, <<-1>>, <<0>>, TRUE) :
        v \in {<<0, 0, 0, 0>>, <<0, 1, 0, 0>>, <<0, 0, 0, 9>>, <<1, 0, 255, 255>>} }
BigEndian == {ImageBytes(ImageMagic, ImageVersion, <<-1>>, <<0>>, FALSE)}

ImageInputs == Indexed \cup CutShort \cup OtherMagics \cup OtherVersions \cup BigEndian

InitImage ==
    /\ buf \in ImageInputs
    /\ little_endian \in BOOLEAN
    /\ image = Idle
    /\ slice = Idle
    /\ archive = Idle /\ res_index = 0 /\ item = Idle /\ path = <<>> /\ found = Idle
    /\ data = <<>> /\ seed = 0 /\ hash_code = Idle
    /\ input = <<>> /\ parsed = Idle /\ pool = Idle /\ accessed = Idle
    /\ stream = <<>> /\ record = Idle /\ attrs = Idle

\* Archive::parse(buf); `archive` is the Index of the Archive it answered.
ArchiveParse ==
    /\ image = Idle
    /\ image' = parse_archive(buf, little_endian)
    /\ archive' = IF image'.kind = "Ok" THEN image'.value.index ELSE archive
    /\ UNCHANGED <<buf, little_endian, slice, res_index, item, path, found,
                   hashVars, classVars, streamVars>>

Parsed == image.kind = "Ok"

\* resource.bytes() for the resource the iterator handed out
Bytes ==
    /\ Parsed
    /\ Running
    /\ item.kind = "Some"
    /\ slice' = bytes(image.value, item.value)
    /\ UNCHANGED <<buf, little_endian, image, archiveVars, hashVars, classVars,
                   streamVars>>

NextImage ==
    \/ ArchiveParse
    \/ Parsed /\ ResourcesNew
    \/ Parsed /\ ResourcesNext
    \/ Parsed /\ ByName
    \/ Bytes

SpecImage == InitImage /\ [][NextImage]_vars
\* A u32 of the input at pos as the platform reads it (pos + 4 is within
\* the input).
U32In(b, pos, le) ==
    IF le THEN ((b[pos + 4] * 256 + b[pos + 3]) * 256 + b[pos + 2]) * 256 + b[pos + 1]
    ELSE ((b[pos + 1] * 256 + b[pos + 2]) * 256 + b[pos + 3]) * 256 + b[pos + 4]

\* Where the header says the index ends: 28 bytes of header, two tables of
\* table_length words, attributes_size and strings_size bytes.
DeclaredIndexEnd(b, le) ==
    IF Len(b) < 28 THEN 28
    ELSE 28 + 8 * U32In(b, 16, le) + U32In(b, 20, le) + U32In(b, 24, le)

\* C11: Archive::parse on an input that ends before the header and the four
\* regions of the index are complete answers IOError (or the error of the
\* magic, when four bytes were there to read) and never an Archive.
TruncatedIsIOError ==
    (image.kind # "Idle" /\ Len(buf) < DeclaredIndexEnd(buf, little_endian)) =>
        /\ image.kind = "Err"
        /\ \/ image.error.name = "IOError"
           \/ Len(buf) >= 4 /\ image.error.name = "InvalidMagicIdentifier"

\* The first four bytes as the platform reads them, most significant first.
MagicRead ==
    IF little_endian THEN <<buf[4], buf[3], buf[2], buf[1]>>
    ELSE <<buf[1], buf[2], buf[3], buf[4]>>

\* C12: the magic check passes exactly when the first four bytes, read in
\* the byte order of the parser, are 0xCAFEDADA; another value v fails with
\* InvalidMagicIdentifier(v), fewer than four bytes fail with an error.
MagicChecked ==
    image.kind # "Idle" =>
        IF Len(buf) < 4 THEN image.kind = "Err" /\ image.error.name = "IOError"
        ELSE IF MagicRead = <<202, 254, 218, 218>>
        THEN ~(image.kind = "Err" /\ image.error.name = "InvalidMagicIdentifier")
        ELSE image = Err([name |-> "InvalidMagicIdentifier", magic |-> MagicRead])

MagicRefused ==
    /\ image.kind = "Err"
    /\ image.error.name = "InvalidMagicIdentifier"
    /\ image.error.magic = <<202, 254, 218, 219>>
    /\ Len(buf) >= 28

\* C13: the version is (major, minor), the first u16 after the magic being
\* the minor and the second the major.
VersionIsMajorMinor ==
    image.kind = "Ok" =>
        LET first == IF little_endian THEN buf[6] * 256 + buf[5]
                     ELSE buf[5] * 256 + buf[6]
            second == IF little_endian THEN buf[8] * 256 + buf[7]
                      ELSE buf[7] * 256 + buf[8]
        IN /\ image.value.header.version[1] = second
           /\ image.value.header.version[2] = first

VersionRead ==
    /\ image.kind = "Ok"
    /\ image.value.header.version = <<22136, 4660>>
    /\ SubSeq(buf, 5, 8) = <<52, 18, 120, 86>>
(***************************************************************************)
(* The attribute decoder on its own: Init draws the bytes of a stream, the *)
(* actions decode its first record and the whole of it.                    *)
(***************************************************************************)
MaxRecords == 2

\* What follows the header byte drawn: up to nine bytes.
Filler == <<3, 53, 98, 1, 2, 3, 4, 200, 9>>

\* Every header byte before 0 to 9 more bytes.
HeaderStreams == {<<h>> \o SubSeq(Filler, 1, k) : h \in 0..255, k \in 0..Len(Filler)}

\* Records as they are written: Module 1, Module 2, Base 0x0102,
\* Uncompressed 0, and one of the kind 8.
RecordSamples == {<<8, 1>>, <<8, 2>>, <<25, 1, 2>>, <<56, 0>>, <<64, 1>>}

RECURSIVE RecordSeqs(_)
RecordSeqs(n) ==
    IF n = 0 THEN {<<>>}
    ELSE {Append(rs, r) : rs \in RecordSeqs(n - 1), r \in RecordSamples}

\* The end of a stream: the byte 0, a byte of kind 0 before a further
\* record, or the end of the input.
Endings == {<<0>>, <<5, 8, 7>>, <<>>}

RecordStreams ==
    { Flatten(rs) \o e :
        rs \in UNION {RecordSeqs(n) : n \in 0..MaxRecords}, e \in Endings }

InitStream ==
    /\ stream \in HeaderStreams \cup RecordStreams
    /\ record = Idle
    /\ attrs = Idle
    /\ data = <<>> /\ seed = 0 /\ hash_code = Idle
    /\ archive = Idle /\ res_index = 0 /\ item = Idle /\ path = <<>> /\ found = Idle
    /\ input = <<>> /\ parsed = Idle /\ pool = Idle /\ accessed = Idle
    /\ buf = <<>> /\ little_endian = TRUE /\ image = Idle /\ slice = Idle

\* Parser::new(stream).parse_attribute()
ParseAttribute ==
    /\ record = Idle
    /\ record' = parse_attribute(stream, 0)
    /\ UNCHANGED <<stream, attrs, hashVars, archiveVars, classVars, imageVars>>

\* Parser::new(stream).parse_attributes()
ParseAttributes ==
    /\ attrs = Idle
    /\ attrs' = parse_attributes(stream)
    /\ UNCHANGED <<stream, record, hashVars, archiveVars, classVars, imageVars>>

NextStream == ParseAttribute \/ ParseAttributes

SpecStream == InitStream /\ [][NextStream]_vars

\* The u64 of up to eight bytes, most significant first, as its eight bytes.
Packed(bs) == [i \in 1..8 |-> IF i <= 8 - Len(bs) THEN 0 ELSE bs[i - (8 - Len(bs))]]

\* C14: for the header byte h, kind = h >> 3 and length = (h & 7) + 1:
\* kind 0 is None after the header byte alone; a kind in 1..7 reads length
\* bytes and answers (kind, value), the bytes packed most significant
\* first, or an error when fewer are left; a kind in 8..31 fails with
\* InvalidAttributeKind(kind).
AttributeByHeader ==
    (record.kind # "Idle" /\ Len(stream) >= 1) =>
        LET h == stream[1]
            kind == h \div 8
            length == (h % 8) + 1
        IN IF kind = 0 THEN record = [kind |-> "Ok", attr |-> None, pos |-> 1]
           ELSE IF kind >= 8
           THEN record.kind = "Err" /\ record.error = "InvalidAttributeKind"
                /\ record.code = kind
           ELSE IF Len(stream) - 1 < length
           THEN record.kind = "Err" /\ record.error = "IOError"
           ELSE record = [kind |-> "Ok",
                          attr |-> Some([kind |-> kind,
                                         value |-> Packed(SubSeq(stream, 2, 1 + length))]),
                          pos |-> 1 + length]

ExtensionRead ==
    /\ record.kind = "Ok"
    /\ Len(stream) >= 4
    /\ SubSeq(stream, 1, 4) = <<34, 3, 53, 98>>
    /\ record.attr = Some([kind |-> Extension, value |-> <<0, 0, 0, 0, 0, 3, 53, 98>>])

RECURSIVE LastOf(_, _, _, _)
\* The value of the last record of the kind k before the end of the
\* stream s, from pos on, and cur when there is none.
LastOf(s, pos, k, cur) ==
    The({ IF c[1] >= Len(s) \/ s[c[1] + 1] \div 8 = 0 THEN c[2]
          ELSE LET h == s[c[1] + 1]
                   n == (h % 8) + 1
               IN LastOf(s, c[1] + 1 + n, k,
                         IF h \div 8 = k THEN Packed(SubSeq(s, c[1] + 2, c[1] + 1 + n))
                         ELSE c[2])
          : c \in {<<pos, cur>>} })

\* C18: parse_attributes decodes up to the first header byte of kind 0 and
\* answers seven attrs: 0 for a kind that did not occur, the value of its
\* last occurrence for a kind k that did (slot k - 1 of the array).
LastOccurrenceKept ==
    attrs.kind = "Ok" =>
        /\ Len(attrs.attributes) = AttributeKinds
        /\ \A k \in 1..AttributeKinds :
               attrs.attributes[k] = LastOf(stream, 0, k, Zero64)

ModuleTwice ==
    /\ attrs.kind = "Ok"
    /\ Len(stream) >= 5
    /\ SubSeq(stream, 1, 5) = <<8, 1, 8, 2, 5>>
    /\ attrs.attributes[Module] = <<0, 0, 0, 0, 0, 0, 0, 2>>
\* C15: bytes() of a resource yielded by the archive answers the range
\* buf[resource_data_start + Offset .. resource_data_start + Offset +
\* Uncompressed] of the archive's buffer, as a view of that buffer, and
\* never aborts.
BytesIsTheRange ==
    [][Bytes =>
          LET from == image.value.resource_data_start + AsUsize(item.value[Offset])
              size == AsUsize(item.value[Uncompressed])
          IN /\ slice'.kind = "Slice"
             /\ slice'.from = from
             /\ slice'.to = from + size
             /\ slice'.to <= Len(buf)
             /\ slice'.value = SubSeq(buf, from + 1, from + size)]_vars
\* The seven slots of the attribute stream of a at the k-th offset
\* (k = 0, 1, ...), by the walk of its records.
StreamAt(a, k) ==
    [kind \in 1..AttributeKinds |->
        LastOf(a.attribute_data, a.attribute_offsets[k + 1], kind, Zero64)]

\* C16: from resources() on, each call of next() yields the resource decoded
\* from attribute_data[attribute_offsets[k]..] for k = 0, 1, ... in
\* ascending order, table_length of them in all, and None ever after.
IterationWalksTheTable ==
    [][(Parsed /\ ResourcesNext) =>
          IF res_index < TableLen(archive)
          THEN /\ item' = Some(StreamAt(archive, res_index))
               /\ res_index' = res_index + 1
          ELSE /\ item' = None
               /\ res_index' = res_index]_vars
\* The slot of the redirect table the path p falls in.
SlotOf(a, p) == a.redirect_table[(hash(p, HASH_MULTIPLIER) % TableLen(a)) + 1]

\* C17: with bucket = hash(p, HASH_MULTIPLIER) mod table_length and
\* r = redirect_table[bucket], the candidate index of by_name is
\* hash(p, r) mod table_length for r > 0 and -1 - r for r < 0, and the
\* resource it answers is the one decoded from attribute_data at
\* attribute_offsets[that index].
CandidateByRedirect ==
    (found.kind # "Idle" /\ TableLen(archive) > 0 /\ SlotOf(archive, path) # 0) =>
        LET r == SlotOf(archive, path)
        IN /\ found.consulted
           /\ r > 0 => found.candidate = hash(path, r) % TableLen(archive)
           /\ r < 0 => found.candidate = -1 - r
           /\ found.kind = "Some" => found.value = StreamAt(archive, found.candidate)

\* A path found through a positive slot whose seed sends it to another
\* index than its bucket.
FoundBySeed ==
    /\ found.kind = "Some"
    /\ SlotOf(archive, path) > 0
    /\ found.candidate # hash(path, HASH_MULTIPLIER) % TableLen(archive)

\* A path found through the direct index 1 of the slot -2.
FoundDirect ==
    /\ found.kind = "Some"
    /\ SlotOf(archive, path) = -2
    /\ found.candidate = 1
(***************************************************************************)
(* The Long constant on its own: Init draws the bytes after the tag 5,     *)
(* ParseLong decodes them.                                                 *)
(***************************************************************************)
\* The bytes a half is made of: the ends of the range and of each sign.
HalfBytes == {0, 1, 127, 128, 255}

\* A half, most significant byte first.
Halves == {<<h, 0, 0, l>> : h \in HalfBytes, l \in HalfBytes}
              \cup {<<h, 255, 255, l>> : h \in HalfBytes, l \in HalfBytes}

\* The two halves, and the inputs that end before the second is complete.
LongInputs ==
    {high \o low : high \in Halves, low \in Halves}
        \cup {SubSeq(<<128, 0, 0, 1, 255, 255, 255>>, 1, n) : n \in 0..7}

InitLong ==
    /\ input \in LongInputs
    /\ parsed = Idle
    /\ pool = Idle /\ accessed = Idle
    /\ data = <<>> /\ seed = 0 /\ hash_code = Idle
    /\ archive = Idle /\ res_index = 0 /\ item = Idle /\ path = <<>> /\ found = Idle
    /\ buf = <<>> /\ little_endian = TRUE /\ image = Idle /\ slice = Idle
    /\ stream = <<>> /\ record = Idle /\ attrs = Idle

\* Parser::new(input).parse_long()
ParseLong ==
    /\ parsed = Idle
    /\ parsed' = parse_long(input, 0)
    /\ UNCHANGED <<input, pool, accessed, hashVars, archiveVars, imageVars, streamVars>>

NextLong == ParseLong

SpecLong == InitLong /\ [][NextLong]_vars

\* C19: the Long decoded from the halves (high, low) is the 64-bit pattern
\* (high << 32) | low, high in the upper four bytes and low in the lower
\* four, read as a signed 64-bit integer, and the addition that forms it
\* never overflows.
LongIsThePattern ==
    (parsed.kind # "Idle" /\ Len(input) >= 8) =>
        /\ parsed.kind = "Ok"
        /\ parsed.value.tag = "Long"
        /\ parsed.value.value = SubSeq(input, 1, 8)
        /\ ~parsed.value.overflow

\* Both halves with their top bit set: 0xFFFFFFFF, 0x80FFFFFF.
NegativeHalves ==
    /\ input = <<255, 255, 255, 255, 128, 255, 255, 255>>
    /\ parsed.kind = "Ok"
    /\ parsed.value.value = input
\* C20: for every archive Archive::parse accepted and every path, by_name
\* completes with Some or None: the bucket, the candidate index, the
\* attribute offset and the string offsets stay within redirect_table,
\* attribute_offsets, attribute_data and strings_data, and nothing is
\* divided by zero.
ByNameCompletes ==
    (Parsed /\ found.kind # "Idle") => found.kind \in {"Some", "None"}
\* C21: after a successful Archive::parse the two tables have table_length
\* entries, attribute_data has attributes_size bytes and strings_data
\* strings_size bytes, all of them filled from the input, and
\* resource_data_start is header.index_size() = 28 + 8 * table_length +
\* attributes_size + strings_size, at most the length of the buffer.
IndexAsDeclared ==
    Parsed =>
        LET header == image.value.header
            index == image.value.index
            tables == 28 + 8 * header.table_length
            start == image.value.resource_data_start
        IN /\ Len(index.redirect_table) = header.table_length
           /\ Len(index.attribute_offsets) = header.table_length
           /\ Len(index.attribute_data) = header.attributes_size
           /\ Len(index.strings_data) = header.strings_size
           /\ start = index_size(header)
           /\ start = tables + header.attributes_size + header.strings_size
           /\ start <= Len(buf)
           /\ index.attribute_data
                = SubSeq(buf, tables + 1, tables + header.attributes_size)
           /\ index.strings_data
                = SubSeq(buf, tables + header.attributes_size + 1, start)
           /\ \A i \in 1..header.table_length :
                /\ index.redirect_table[i]
                     = AsI32(Ordered(SubSeq(buf, 28 + 4 * i - 3, 28 + 4 * i),
                                     ~little_endian))
                /\ index.attribute_offsets[i]
                     = U32In(buf, 28 + 4 * header.table_length + 4 * (i - 1),
                             little_endian)
====
